---- MODULE Spec2Model ----
(***************************************************************************)
(* The recording-session lifecycle of scripts/enhanced-bot.py: the global  *)
(* recording_state dictionary, the `record start|stop|status` handlers,    *)
(* the automatic-stop timer and the post-processing pipeline, as           *)
(* cooperative asyncio tasks on one event loop.                            *)
(*                                                                         *)
(* A task runs without interruption from one suspension to the next.  A    *)
(* task is suspended only where an await reaches the event loop:           *)
(* ctx.send (network I/O), asyncio.sleep and run_in_executor.  The awaits  *)
(* of OBSController, TranscriptGenerator, GitHubIntegrator and             *)
(* YouTubeUploader methods run inline: those coroutines contain no await   *)
(* that suspends (their bodies call blocking libraries), so control does   *)
(* not return to the loop while they run.  Each action below is one such   *)
(* uninterrupted segment of a handler.                                     *)
(***************************************************************************)
EXTENDS Integers, Sequences, FiniteSets

VARIABLES recording_state, handlers, pipelines, now, calls, session_id, stems,
          config, send_errors

vars == <<recording_state, handlers, pipelines, now, calls, session_id, stems,
          config, send_errors>>

(* ------------------------------ bounds -------------------------------- *)

\* Number of `record ...` commands dispatched in one run.
MaxCmds == 2

\* Last instant of the wall clock, in seconds since the bot started.
MaxClock == 120

\* Number of ctx.send calls that raise in one run.
MaxSendErrors == 1

\* Number of `record ...` commands dispatched in one run of the handlers
\* alone (SpecHandlers).
MaxHandlerCmds == 3

(* ----------------------------- constants ------------------------------ *)

\* asyncio.sleep(minutes * 60)
SecondsPerMinute == 60

\* Python's None, for every optional field.
None == 0 - 1

\* The instants at which the clock is observed: the first two seconds, then
\* each whole minute.
ClockPoints == {0, 1} \cup {t \in 0..MaxClock : t % SecondsPerMinute = 0}

\* The `minutes` argument of `record start` (an int the user types; default 0).
MinutesArgs == {0 - 1, 0, 1}

\* The tasks of the commands of this run.
Handlers == DOMAIN handlers

(* --------------------------- pure functions --------------------------- *)

\* datetime.now().strftime('%Y-%m-%d_%H-%M-%S'): the instant at one-second
\* resolution (the clock of the model counts whole seconds).
FormatStem(t) == t

\* datetime.now() - recording_state['start_time']
Elapsed(t, start_time) == t - start_time

\* config.transcripts_dir / f"{audio_file.stem}.txt": one path per stem.
TranscriptFile(stem) == stem

\* f"upload_{datetime.now().strftime('%Y%m%d_%H%M%S')}"
UploadId(t) == t

\* The html_url of transcripts/<date>-transcript.txt or of metadata/<date>.json
\* (transcript_commit or metadata_commit); the run lasts less than a day.
CommitUrls == {0, 1}

(* -------------------------- the session record ------------------------ *)

InitialState ==
    [active |-> FALSE, start_time |-> None, duration_minutes |-> 0,
     recording_filename |-> None, youtube_upload_id |-> None,
     github_commit_url |-> None, transcript_path |-> None]

\* Variant: the handler does not look at the flag.
StartRejected_Never(rs) == FALSE

\* if recording_state['active']: ... return
StartRejected(rs) == rs.active

\* recording_state.update({...}) of handle_record_start; t1 and t2 are the two
\* readings of datetime.now().
StartUpdate(rs, t1, t2, minutes) ==
    [rs EXCEPT !.active = TRUE, !.start_time = t1, !.duration_minutes = minutes,
               !.recording_filename = FormatStem(t2), !.youtube_upload_id = None,
               !.github_commit_url = None, !.transcript_path = None]

\* The message of line 416: the start prompt, and " for <minutes> minutes"
\* if minutes > 0.
StartMessage(minutes) ==
    <<"recording_start", IF minutes > 0 THEN <<"for", minutes, "minutes">> ELSE <<>> >>

\* Variant: the handler does not look at the flag.
StopRejected_Never(rs) == FALSE

\* if not recording_state['active']: ... return
StopRejected(rs) == ~rs.active

\* Variant: the stop leaves start_time in place.
StopUpdate_KeepsStartTime(rs) ==
    [rs EXCEPT !.active = FALSE, !.duration_minutes = 0, !.recording_filename = None]

\* Variant: the stop clears the fields but not the flag.
StopUpdate_KeepsActive(rs) ==
    [rs EXCEPT !.start_time = None, !.duration_minutes = 0, !.recording_filename = None]

\* recording_state.update({...}) of handle_record_stop.
StopUpdate(rs) ==
    [rs EXCEPT !.active = FALSE, !.start_time = None, !.duration_minutes = 0,
               !.recording_filename = None]

\* Variant: the record is updated before the recorder's answer is looked at.
AfterStartFailure_Marks(rs) == [rs EXCEPT !.active = TRUE]

\* if not await obs_controller.start_recording(): send the failure and return;
\* the record is not touched.
AfterStartFailure(rs) == rs

\* Variant: the record is reset before the recorder's answer is looked at.
AfterStopFailure_Resets(rs) == StopUpdate(rs)

\* if not await obs_controller.stop_recording(): send the failure and return;
\* the record is not touched.
AfterStopFailure(rs) == rs

(* ------------------------------- tasks -------------------------------- *)

\* A command handler task.  pc names the line of the await it is suspended
\* at.  duration and recording_filename are the locals of handle_record_stop.
\* nested: the task runs handle_record_stop called from handle_record_start
\* (line 423).  session_id counts the successful starts, and stems[s] is the
\* filename stem stored by the start of session s.  sid, stop_sid, stop_on,
\* outcome and stop_outcome record what the task did: the session it
\* started, the session it stopped, the state handle_record_stop found, and
\* how the handler and handle_record_stop ended.  A task that has ended
\* keeps only kind, outcome and stop_outcome.
NoHandler ==
    [kind |-> "free", pc |-> "none", minutes |-> 0, deadline |-> None,
     nested |-> FALSE, duration |-> None, recording_filename |-> None,
     sid |-> 0, stop_sid |-> 0, stop_on |-> "none",
     outcome |-> "none", stop_outcome |-> "none", report |-> <<>>]

\* The handler ends: it returns to the dispatcher or an exception leaves it.
Ended(rec, outcome) ==
    [NoHandler EXCEPT !.kind = rec.kind, !.pc = "done", !.outcome = outcome,
                      !.stop_outcome = rec.stop_outcome]

Free(h) == handlers[h].kind = "free"

\* Commands are handled in the order they arrive.
NextHandler(h) == Free(h) /\ \A g \in Handlers : g < h => ~Free(g)

SetHandler(h, rec) == handlers' = [handlers EXCEPT ![h] = rec]

\* A ctx.send completes (ok) or raises (discord.HTTPException).
SendResult(ok) ==
    /\ ok \/ send_errors < MaxSendErrors
    /\ send_errors' = send_errors + (IF ok THEN 0 ELSE 1)

\* The bot is ready; `commands` commands will arrive.
InitFor(commands) ==
    /\ recording_state = InitialState
    /\ handlers = [h \in 1..commands |-> NoHandler]
    /\ pipelines = <<>>
    /\ now = 0
    /\ calls = [obs_start |-> 0, obs_start_ok |-> 0, obs_stop |-> 0, obs_stop_ok |-> 0]
    /\ session_id = 0
    /\ stems = <<>>
    /\ config \in [s3_bucket : BOOLEAN, rclone_remote : BOOLEAN]
    /\ send_errors = 0

Init == InitFor(MaxCmds)

\* Time passes.
Tick ==
    /\ \E t \in ClockPoints : t > now /\ now' = t
    /\ UNCHANGED <<recording_state, handlers, pipelines, calls, session_id, stems, config,
                   send_errors>>

(* ------------------------- handle_record_stop ------------------------- *)

\* handle_record_stop returns (to the command dispatcher, or to line 425 of
\* handle_record_start, which logs and returns).
StopReturn(rec) == Ended([rec EXCEPT !.stop_outcome = "returned"], "returned")

\* An exception leaves handle_record_stop: into the except clause of
\* handle_record_start when called from line 423, else out of the handler.
StopRaise(rec) ==
    IF rec.nested
    THEN [rec EXCEPT !.pc = "s429", !.stop_outcome = "raised"]
    ELSE Ended([rec EXCEPT !.stop_outcome = "raised"], "raised")

\* Variant: the stem is read from the record when the task is created.
NewPipeline_ReadsLate(h, rec) ==
    [sid |-> rec.stop_sid, launcher |-> h,
     filename |-> recording_state.recording_filename,
     session_duration |-> rec.duration,
     pc |-> "created", calls |-> <<>>, lookup |-> None, metadata_duration |-> None,
     s3_success |-> FALSE, rclone_success |-> FALSE]

\* asyncio.create_task(process_recording_pipeline(recording_filename, ctx)):
\* the task gets the stem (and ctx).  session_duration is the `duration` its
\* launcher computed at line 444, which is not handed over; it is kept here,
\* until the pipeline looks the artifact up, to compare with what the
\* pipeline reports.  metadata_duration is video_metadata['duration'].
NewPipeline(h, rec) ==
    [sid |-> rec.stop_sid, launcher |-> h, filename |-> rec.recording_filename,
     session_duration |-> rec.duration,
     pc |-> "created", calls |-> <<>>, lookup |-> None, metadata_duration |-> None,
     s3_success |-> FALSE, rclone_success |-> FALSE]

\* Lines 433-456 of handle_record_stop, run by task h (record base): from
\* the entry to the first ctx.send.
StopEnter(h, base) ==
    IF StopRejected(recording_state)
    THEN /\ SetHandler(h, [base EXCEPT !.pc = "s434", !.stop_on = "idle"])
         /\ UNCHANGED <<recording_state, calls>>
    ELSE \E ok \in BOOLEAN :
         /\ calls' = [calls EXCEPT !.obs_stop = @ + 1,
                                   !.obs_stop_ok = @ + (IF ok THEN 1 ELSE 0)]
         /\ IF ok
            THEN /\ recording_state' = StopUpdate(recording_state)
                 /\ SetHandler(h, [base EXCEPT
                        !.pc = "s456", !.stop_on = "recording",
                        !.duration = Elapsed(now, recording_state.start_time),
                        !.recording_filename = recording_state.recording_filename,
                        !.stop_sid = session_id])
            ELSE /\ recording_state' = AfterStopFailure(recording_state)
                 /\ SetHandler(h, [base EXCEPT !.pc = "s440", !.stop_on = "recording"])

\* `record stop` is dispatched.
RecordStop ==
    /\ \E h \in Handlers :
        /\ NextHandler(h)
        /\ StopEnter(h, [NoHandler EXCEPT !.kind = "stop"])
    /\ UNCHANGED <<pipelines, now, session_id, stems, config, send_errors>>

\* The send of line 434 ("No recording in progress!") completes or raises;
\* it is outside the try.
StopWarnSent ==
    /\ \E h \in Handlers, ok \in BOOLEAN :
        /\ SendResult(ok)
        /\ handlers[h].pc = "s434"
        /\ SetHandler(h, IF ok THEN StopReturn(handlers[h])
                               ELSE StopRaise(handlers[h]))
    /\ UNCHANGED <<recording_state, pipelines, now, calls, session_id, stems, config>>

\* The send of line 440 ("Failed to stop OBS recording") completes, and the
\* handler returns, or raises into the except clause (line 465).
StopFailSent ==
    /\ \E h \in Handlers, ok \in BOOLEAN :
        /\ SendResult(ok)
        /\ handlers[h].pc = "s440"
        /\ SetHandler(h, IF ok THEN StopReturn(handlers[h])
                               ELSE [handlers[h] EXCEPT !.pc = "s465"])
    /\ UNCHANGED <<recording_state, pipelines, now, calls, session_id, stems, config>>

\* The send of line 456 (the stop message) completes: the pipeline task is
\* created (line 459) and the handler returns; or it raises into the except
\* clause and no pipeline is created.
StopMsgSent ==
    /\ \E h \in Handlers, ok \in BOOLEAN :
        /\ SendResult(ok)
        /\ handlers[h].pc = "s456"
        /\ IF ok
           THEN /\ pipelines' = Append(pipelines, NewPipeline(h, handlers[h]))
                /\ SetHandler(h, StopReturn(handlers[h]))
           ELSE /\ UNCHANGED pipelines
                /\ SetHandler(h, [handlers[h] EXCEPT !.pc = "s465"])
    /\ UNCHANGED <<recording_state, now, calls, session_id, stems, config>>

\* The send of line 465 ("Failed to stop recording: ...") completes or raises.
StopErrSent ==
    /\ \E h \in Handlers, ok \in BOOLEAN :
        /\ SendResult(ok)
        /\ handlers[h].pc = "s465"
        /\ SetHandler(h, IF ok THEN StopReturn(handlers[h])
                               ELSE StopRaise(handlers[h]))
    /\ UNCHANGED <<recording_state, pipelines, now, calls, session_id, stems, config>>

(* ------------------------- handle_record_start ------------------------ *)

\* `record start [minutes]` is dispatched: lines 389-416, to the first send.
\* obs_controller.start_recording() returns ok; it does not suspend.
RecordStart ==
    /\ \E h \in Handlers, minutes \in MinutesArgs :
        /\ NextHandler(h)
        /\ LET base == [NoHandler EXCEPT !.kind = "start", !.minutes = minutes] IN
           IF StartRejected(recording_state)
           THEN /\ SetHandler(h, [base EXCEPT !.pc = "s390"])
                /\ UNCHANGED <<recording_state, now, calls, session_id, stems>>
           ELSE \E ok \in BOOLEAN :
                IF ~ok
                THEN /\ SetHandler(h, [base EXCEPT !.pc = "s396"])
                     /\ calls' = [calls EXCEPT !.obs_start = @ + 1]
                     /\ recording_state' = AfterStartFailure(recording_state)
                     /\ UNCHANGED <<now, session_id, stems>>
                ELSE \E t2 \in {now, now + 1} \cap ClockPoints :
                     /\ recording_state' = StartUpdate(recording_state, now, t2, minutes)
                     /\ now' = t2
                     /\ session_id' = session_id + 1
                     /\ stems' = Append(stems, recording_state'.recording_filename)
                     /\ calls' = [calls EXCEPT !.obs_start = @ + 1, !.obs_start_ok = @ + 1]
                     /\ SetHandler(h, [base EXCEPT !.pc = "s416", !.sid = session_id + 1,
                                                   !.report = StartMessage(minutes)])
    /\ UNCHANGED <<pipelines, config, send_errors>>

\* The send of line 390 ("Recording already in progress!") completes or
\* raises; it is outside the try.
StartWarnSent ==
    /\ \E h \in Handlers, ok \in BOOLEAN :
        /\ SendResult(ok)
        /\ handlers[h].pc = "s390"
        /\ SetHandler(h, IF ok
               THEN Ended(handlers[h], "returned")
               ELSE Ended(handlers[h], "raised"))
    /\ UNCHANGED <<recording_state, pipelines, now, calls, session_id, stems, config>>

\* The send of line 396 ("Failed to start OBS recording") completes, and the
\* handler returns, or raises into the except clause (line 429).
StartFailSent ==
    /\ \E h \in Handlers, ok \in BOOLEAN :
        /\ SendResult(ok)
        /\ handlers[h].pc = "s396"
        /\ SetHandler(h, IF ok
               THEN Ended(handlers[h], "returned")
               ELSE [handlers[h] EXCEPT !.pc = "s429"])
    /\ UNCHANGED <<recording_state, pipelines, now, calls, session_id, stems, config>>

\* The send of line 416 (the start message) completes: with minutes > 0 the
\* handler sleeps minutes * 60 seconds (line 420), else it returns; or the
\* send raises into the except clause.
StartMsgSent ==
    /\ \E h \in Handlers, ok \in BOOLEAN :
        /\ SendResult(ok)
        /\ handlers[h].pc = "s416"
        /\ SetHandler(h,
             IF ~ok THEN [handlers[h] EXCEPT !.pc = "s429"]
             ELSE IF handlers[h].minutes > 0
                  THEN [handlers[h] EXCEPT
                          !.pc = "sleep420",
                          !.deadline = now + handlers[h].minutes * SecondsPerMinute]
                  ELSE Ended(handlers[h], "returned"))
    /\ UNCHANGED <<recording_state, pipelines, now, calls, session_id, stems, config>>

\* asyncio.sleep returns, at or after its deadline: lines 421-422.
TimerFires ==
    /\ \E h \in Handlers :
        /\ handlers[h].pc = "sleep420"
        /\ now >= handlers[h].deadline
        /\ SetHandler(h, IF recording_state.active
                         THEN [handlers[h] EXCEPT !.pc = "s422"]
                         ELSE Ended(handlers[h], "returned"))
    /\ UNCHANGED <<recording_state, pipelines, now, calls, session_id, stems, config,
                   send_errors>>

\* The send of line 422 ("Recording time limit reached") completes, and
\* handle_record_stop is called (line 423), or raises into the except clause.
TimeLimitSent ==
    /\ \E h \in Handlers, ok \in BOOLEAN :
        /\ SendResult(ok)
        /\ handlers[h].pc = "s422"
        /\ IF ok
           THEN StopEnter(h, [handlers[h] EXCEPT !.nested = TRUE])
           ELSE /\ SetHandler(h, [handlers[h] EXCEPT !.pc = "s429"])
                /\ UNCHANGED <<recording_state, calls>>
    /\ UNCHANGED <<pipelines, now, session_id, stems, config>>

\* The send of line 429 ("Failed to start recording: ...") completes or raises.
StartErrSent ==
    /\ \E h \in Handlers, ok \in BOOLEAN :
        /\ SendResult(ok)
        /\ handlers[h].pc = "s429"
        /\ SetHandler(h, IF ok
               THEN Ended(handlers[h], "returned")
               ELSE Ended(handlers[h], "raised"))
    /\ UNCHANGED <<recording_state, pipelines, now, calls, session_id, stems, config>>

(* ------------------------- handle_record_status ----------------------- *)

\* The decimal digits of n >= 0.
RECURSIVE Digits(_)
Digits(n) == IF n < 10 THEN <<n>> ELSE Append(Digits(n \div 10), n % 10)

\* f"{int(x):02d}": the digits of x, with a leading zero below ten.
Pad2(n) == IF n < 10 THEN <<0, n>> ELSE Digits(n)

\* Variant: the seconds are not reduced modulo 60.
StatusReport_TotalSeconds(rs, t) ==
    IF ~rs.active THEN <<"not active">>
    ELSE <<"active", Pad2(Elapsed(t, rs.start_time) \div SecondsPerMinute),
           Pad2(Elapsed(t, rs.start_time)),
           rs.youtube_upload_id # None, rs.github_commit_url # None,
           rs.transcript_path # None>>

\* The status message: "not active", or "active for MM:SS" from
\* divmod(duration.total_seconds(), 60) followed by one flag per populated
\* post-processing field (YouTube, GitHub, transcript).
StatusReport(rs, t) ==
    IF ~rs.active THEN <<"not active">>
    ELSE <<"active", Pad2(Elapsed(t, rs.start_time) \div SecondsPerMinute),
           Pad2(Elapsed(t, rs.start_time) % SecondsPerMinute),
           rs.youtube_upload_id # None, rs.github_commit_url # None,
           rs.transcript_path # None>>

\* `record status` is dispatched: to the send of line 542 or 559.
RecordStatus ==
    /\ \E h \in Handlers :
        /\ NextHandler(h)
        /\ SetHandler(h, [NoHandler EXCEPT
               !.kind = "status",
               !.pc = IF recording_state.active THEN "s559" ELSE "s542",
               !.report = StatusReport(recording_state, now)])
    /\ UNCHANGED <<recording_state, pipelines, now, calls, session_id, stems, config,
                   send_errors>>

\* The send of the status message completes or raises.
StatusSent ==
    /\ \E h \in Handlers, ok \in BOOLEAN :
        /\ SendResult(ok)
        /\ handlers[h].pc \in {"s542", "s559"}
        /\ SetHandler(h, IF ok
               THEN Ended(handlers[h], "returned")
               ELSE Ended(handlers[h], "raised"))
    /\ UNCHANGED <<recording_state, pipelines, now, calls, session_id, stems, config>>

(* --------------------- process_recording_pipeline --------------------- *)

\* Variant: the pipeline reads the stem from the live record.
PipelineStem_Live(p, rs) == rs.recording_filename

\* The pipeline's parameter `filename`: the stem it looks the artifact up by.
PipelineStem(p, rs) == p.filename

\* recording_state['transcript_path'] = transcript_path
WriteTranscript(rs, path) == [rs EXCEPT !.transcript_path = path]

\* recording_state['github_commit_url'] = github_url
WriteCommit(rs, url) == [rs EXCEPT !.github_commit_url = url]

\* Variant: the upload also marks the session finished.
WriteUpload_EndsSession(rs, id) ==
    [rs EXCEPT !.youtube_upload_id = id, !.active = FALSE, !.start_time = None]

\* recording_state['youtube_upload_id'] = youtube_id
WriteUpload(rs, id) == [rs EXCEPT !.youtube_upload_id = id]

\* upload_to_rclone, when a remote is configured: run_in_executor passes the
\* keyword dictionary to subprocess.run as its second positional argument
\* (bufsize), Popen raises TypeError, and the except clause returns False.
RcloneResult == FALSE

Called(p, name) == [p EXCEPT !.calls = Append(@, name)]

\* The pipeline task ends; its locals are gone.
Finished(p) ==
    [p EXCEPT !.pc = "done", !.filename = None, !.lookup = None,
              !.session_duration = None, !.metadata_duration = None,
              !.s3_success = FALSE, !.rclone_success = FALSE]

\* Pipeline i becomes p and the session record rs.
Continue(i, p, rs) ==
    /\ pipelines' = [pipelines EXCEPT ![i] = p]
    /\ recording_state' = rs

\* Variant: the cloud notification is sent whatever the uploads returned.
AfterCloud_Always(i, p, rs, s3_success, rclone_success) ==
    Continue(i, [p EXCEPT !.pc = "p529", !.s3_success = s3_success,
                          !.rclone_success = rclone_success], rs)

\* Lines 525-532: the cloud notification, if any upload succeeded, then the
\* final notification.  s3_success and rclone_success are the pipeline's
\* locals.
AfterCloud(i, p, rs, s3_success, rclone_success) ==
    LET q == [p EXCEPT !.s3_success = s3_success,
                       !.rclone_success = rclone_success] IN
    IF s3_success \/ rclone_success
    THEN Continue(i, [q EXCEPT !.pc = "p529"], rs)
    ELSE Continue(i, [q EXCEPT !.pc = "p532"], rs)

\* Line 523: upload_to_rclone returns False at once with no remote, else it
\* suspends in run_in_executor.
RcloneStep(i, p, rs, s3_success) ==
    IF config.rclone_remote
    THEN Continue(i, [Called(p, "rclone") EXCEPT !.pc = "p_rclone",
                                                 !.s3_success = s3_success], rs)
    ELSE AfterCloud(i, Called(p, "rclone"), rs, s3_success, FALSE)

\* Line 522: upload_to_s3 returns False at once with no bucket, else it
\* suspends in run_in_executor.
S3Step(i, p, rs) ==
    IF config.s3_bucket
    THEN Continue(i, [Called(p, "s3") EXCEPT !.pc = "p_s3"], rs)
    ELSE RcloneStep(i, Called(p, "s3"), rs, FALSE)

\* Lines 509-519: the video upload returns an identifier or None.
YouTubeStep(i, p, rs) ==
    \E youtube_id \in {None, UploadId(now)} :
        IF youtube_id # None
        THEN Continue(i, [Called(p, "youtube") EXCEPT !.pc = "p519"],
                      WriteUpload(rs, youtube_id))
        ELSE S3Step(i, Called(p, "youtube"), rs)

\* 'duration': duration.total_seconds() if 'duration' in locals() else 0
\* (line 495): process_recording_pipeline has no parameter or local named
\* duration, so the test is false.
MetadataDuration(p) == 0

\* Lines 483-506: the transcript, and on success the commit with its
\* metadata.
TranscriptStep(i, p, rs) ==
    \E transcript_path \in {None, TranscriptFile(p.lookup)} :
        IF transcript_path # None
        THEN LET q == [Called(Called(p, "transcript"), "github")
                         EXCEPT !.metadata_duration = MetadataDuration(p)]
             IN \E github_url \in {None} \cup CommitUrls :
                IF github_url # None
                THEN Continue(i, [q EXCEPT !.pc = "p506"],
                              WriteCommit(WriteTranscript(rs, transcript_path),
                                          github_url))
                ELSE YouTubeStep(i, q, WriteTranscript(rs, transcript_path))
        ELSE YouTubeStep(i, Called(p, "transcript"), rs)

\* An exception inside the try: the except clause sends line 537.
PipelineRaise(i) ==
    /\ pipelines' = [pipelines EXCEPT ![i].pc = "p537"]
    /\ UNCHANGED recording_state

\* The task created at line 459 starts: to the send of line 470.
PipelineBegin ==
    /\ \E i \in DOMAIN pipelines :
        /\ pipelines[i].pc = "created"
        /\ pipelines' = [pipelines EXCEPT ![i].pc = "p470"]
    /\ UNCHANGED <<recording_state, handlers, now, calls, session_id, stems, config,
                   send_errors>>

\* The send of line 470 completes: the artifact is looked up (line 473); if
\* it is missing the failure is sent (line 476), else the transcript step
\* runs.
PipelineStartSent ==
    /\ \E i \in DOMAIN pipelines, ok \in BOOLEAN :
        /\ SendResult(ok)
        /\ pipelines[i].pc = "p470"
        /\ IF ~ok THEN PipelineRaise(i)
           ELSE LET p == [pipelines[i] EXCEPT
                            !.lookup = PipelineStem(pipelines[i], recording_state),
                            !.session_duration = None]
                IN \E found \in BOOLEAN :
                     IF found THEN TranscriptStep(i, Called(p, "glob"), recording_state)
                     ELSE Continue(i, [Called(p, "glob") EXCEPT !.pc = "p476"],
                                   recording_state)
    /\ UNCHANGED <<handlers, now, calls, session_id, stems, config>>

\* Variant: the `return` of line 477 is missing, the pipeline goes on.
PipelineMissingSent_NoReturn ==
    /\ \E i \in DOMAIN pipelines, ok \in BOOLEAN :
        /\ SendResult(ok)
        /\ pipelines[i].pc = "p476"
        /\ IF ok THEN TranscriptStep(i, pipelines[i], recording_state)
           ELSE PipelineRaise(i)
    /\ UNCHANGED <<handlers, now, calls, session_id, stems, config>>

\* The send of line 476 ("Recording file not found") completes, and the
\* pipeline returns, or raises.
PipelineMissingSent ==
    /\ \E i \in DOMAIN pipelines, ok \in BOOLEAN :
        /\ SendResult(ok)
        /\ pipelines[i].pc = "p476"
        /\ IF ok THEN Continue(i, Finished(pipelines[i]), recording_state)
           ELSE PipelineRaise(i)
    /\ UNCHANGED <<handlers, now, calls, session_id, stems, config>>

\* The send of line 506 (the commit message) completes or raises.
PipelineCommitSent ==
    /\ \E i \in DOMAIN pipelines, ok \in BOOLEAN :
        /\ SendResult(ok)
        /\ pipelines[i].pc = "p506"
        /\ IF ok THEN YouTubeStep(i, pipelines[i], recording_state)
           ELSE PipelineRaise(i)
    /\ UNCHANGED <<handlers, now, calls, session_id, stems, config>>

\* The send of line 519 (the upload message) completes or raises.
PipelineUploadSent ==
    /\ \E i \in DOMAIN pipelines, ok \in BOOLEAN :
        /\ SendResult(ok)
        /\ pipelines[i].pc = "p519"
        /\ IF ok THEN S3Step(i, pipelines[i], recording_state)
           ELSE PipelineRaise(i)
    /\ UNCHANGED <<handlers, now, calls, session_id, stems, config>>

\* s3.upload_file ends in the executor: upload_to_s3 returns True or False.
PipelineS3Done ==
    /\ \E i \in DOMAIN pipelines, s3_success \in BOOLEAN :
        /\ pipelines[i].pc = "p_s3"
        /\ RcloneStep(i, pipelines[i], recording_state, s3_success)
    /\ UNCHANGED <<handlers, now, calls, session_id, stems, config, send_errors>>

\* subprocess.run ends in the executor: upload_to_rclone returns.
PipelineRcloneDone ==
    /\ \E i \in DOMAIN pipelines :
        /\ pipelines[i].pc = "p_rclone"
        /\ AfterCloud(i, pipelines[i], recording_state,
                      pipelines[i].s3_success, RcloneResult)
    /\ UNCHANGED <<handlers, now, calls, session_id, stems, config, send_errors>>

\* The send of line 529 (the cloud message) completes or raises.
PipelineCloudSent ==
    /\ \E i \in DOMAIN pipelines, ok \in BOOLEAN :
        /\ SendResult(ok)
        /\ pipelines[i].pc = "p529"
        /\ IF ok THEN Continue(i, [pipelines[i] EXCEPT !.pc = "p532"],
                               recording_state)
           ELSE PipelineRaise(i)
    /\ UNCHANGED <<handlers, now, calls, session_id, stems, config>>

\* The send of line 532 ("Processing complete!") completes or raises.
PipelineCompleteSent ==
    /\ \E i \in DOMAIN pipelines, ok \in BOOLEAN :
        /\ SendResult(ok)
        /\ pipelines[i].pc = "p532"
        /\ IF ok THEN Continue(i, Finished(pipelines[i]), recording_state)
           ELSE PipelineRaise(i)
    /\ UNCHANGED <<handlers, now, calls, session_id, stems, config>>

\* The send of line 537 ("Processing failed: ...") completes or raises.
PipelineErrSent ==
    /\ \E i \in DOMAIN pipelines, ok \in BOOLEAN :
        /\ SendResult(ok)
        /\ pipelines[i].pc = "p537"
        /\ pipelines' = [pipelines EXCEPT ![i] = Finished(@)]
    /\ UNCHANGED <<recording_state, handlers, now, calls, session_id, stems, config>>

(* --------------------------- specification ---------------------------- *)

HandlerStep ==
    \/ RecordStart \/ StartWarnSent \/ StartFailSent \/ StartMsgSent
    \/ TimerFires \/ TimeLimitSent \/ StartErrSent
    \/ RecordStop \/ StopWarnSent \/ StopFailSent \/ StopMsgSent \/ StopErrSent
    \/ RecordStatus \/ StatusSent

PipelineStep ==
    \/ PipelineBegin \/ PipelineStartSent \/ PipelineMissingSent
    \/ PipelineCommitSent \/ PipelineUploadSent \/ PipelineS3Done
    \/ PipelineRcloneDone \/ PipelineCloudSent \/ PipelineCompleteSent
    \/ PipelineErrSent

Next == HandlerStep \/ PipelineStep \/ Tick

Spec == Init /\ [][Next]_vars

\* The command handlers and their timers alone, for longer command
\* sequences: the event loop has not yet run the pipeline tasks that
\* handle_record_stop creates.
InitHandlers == InitFor(MaxHandlerCmds)

NextHandlers == HandlerStep \/ Tick

SpecHandlers == InitHandlers /\ [][NextHandlers]_vars

\* The record with the post-processing fields as pipelines leave them: each
\* absent or written, the commit URL only together with a transcript path.
PostWrites(rs) ==
    {[rs EXCEPT !.transcript_path = w[1], !.github_commit_url = w[2],
                !.youtube_upload_id = w[3]] :
        w \in {v \in ({None, TranscriptFile(0)} \X ({None} \cup CommitUrls)
                        \X {None, UploadId(0)}) :
                   v[2] # None => v[1] # None}}

\* `record status` alone, asked in every shape of the record a run can
\* leave behind: Idle, or Recording since t1 with the stem of the reading
\* t2, with any post-processing fields.  The history that led there is not
\* part of the state; the counters start at the current session.
InitStatus ==
    /\ \E t1 \in ClockPoints, minutes \in MinutesArgs :
         \E t2 \in {t1, t1 + 1} \cap ClockPoints :
            /\ recording_state \in
                  PostWrites(InitialState)
                    \cup PostWrites(StartUpdate(InitialState, t1, t2, minutes))
            /\ now \in {t \in ClockPoints : recording_state.active => t >= t2}
    /\ session_id = (IF recording_state.active THEN 1 ELSE 0)
    /\ stems = (IF recording_state.active
                THEN <<recording_state.recording_filename>> ELSE <<>>)
    /\ calls = [obs_start |-> session_id, obs_start_ok |-> session_id,
                obs_stop |-> 0, obs_stop_ok |-> 0]
    /\ handlers = [h \in 1..MaxCmds |-> NoHandler]
    /\ pipelines = <<>>
    /\ config \in [s3_bucket : BOOLEAN, rclone_remote : BOOLEAN]
    /\ send_errors = 0

NextStatus == RecordStatus \/ StatusSent \/ Tick

SpecStatus == InitStatus /\ [][NextStatus]_vars

(* ------------------------------ properties ---------------------------- *)

\* The fields of the record that describe the session itself.
SessionFields(rs) ==
    <<rs.active, rs.start_time, rs.duration_minutes, rs.recording_filename>>

\* The fields the pipeline fills in.
PostFields(rs) == <<rs.transcript_path, rs.github_commit_url, rs.youtube_upload_id>>

\* Task h takes this step.
Moved(h) == handlers'[h] # handlers[h]

\* This step dispatches `record start` to task h.
StartDispatched(h) == handlers[h].kind = "free" /\ handlers'[h].kind = "start"

\* This step enters handle_record_stop in task h: `record stop` is
\* dispatched, or the timer calls it (line 423).
StopEntered(h) ==
    \/ handlers[h].kind = "free" /\ handlers'[h].kind = "stop"
    \/ handlers[h].pc = "s422" /\ handlers'[h].stop_on # "none"

\* This step calls the recorder's start (stop) operation, and it fails.
StartFails == calls'.obs_start > calls.obs_start /\ calls'.obs_start_ok = calls.obs_start_ok

StopFails == calls'.obs_stop > calls.obs_stop /\ calls'.obs_stop_ok = calls.obs_stop_ok

\* This step gets a success from the recorder's start (stop) operation.
StartSucceeds == calls'.obs_start_ok > calls.obs_start_ok

StopSucceeds == calls'.obs_stop_ok > calls.obs_stop_ok

\* C1: under every interleaving of the handlers, the recorder's start has
\* succeeded at most once more often than its stop, and exactly once more
\* while the session is active: no start succeeds a second time without a
\* successful stop in between.
C1_OneActiveSession ==
    calls.obs_start_ok - calls.obs_stop_ok = (IF recording_state.active THEN 1 ELSE 0)

\* A second `record start` was rejected while the handler of the first one is
\* suspended in its send.
C1_Witness ==
    \E h1, h2 \in Handlers :
        /\ handlers[h1].pc = "s416"
        /\ handlers[h2].pc = "s390"
        /\ calls.obs_start_ok = 1

\* C2: `record start` handled while the session is active goes to the
\* warning (line 390), does not call the recorder and leaves the whole
\* record unchanged; the handler then ends without touching the record.
C2_StartWhileActive ==
    [][\A h \in Handlers :
        /\ (StartDispatched(h) /\ recording_state.active) =>
              /\ handlers'[h].pc = "s390"
              /\ recording_state' = recording_state
              /\ calls' = calls
        /\ (Moved(h) /\ handlers[h].pc = "s390") =>
              /\ handlers'[h].pc = "done"
              /\ recording_state' = recording_state
              /\ calls' = calls]_vars

\* The first start sleeps on its timer, the second start was rejected and has
\* returned; the recorder was called once.
C2_Witness ==
    /\ recording_state.active
    /\ calls.obs_start = 1
    /\ \E h1, h2 \in Handlers :
        /\ handlers[h1].pc = "sleep420"
        /\ handlers[h2].kind = "start"
        /\ handlers[h2].outcome = "returned"

\* C3: handle_record_stop entered while the session is idle goes to the
\* warning (line 434), calls no collaborator, launches no pipeline and leaves
\* the record unchanged; it then ends the same way.
C3_StopWhileIdle ==
    [][\A h \in Handlers :
        /\ (StopEntered(h) /\ ~recording_state.active) =>
              /\ handlers'[h].pc = "s434"
              /\ recording_state' = recording_state
              /\ calls' = calls
              /\ pipelines' = pipelines
        /\ (Moved(h) /\ handlers[h].pc = "s434") =>
              /\ handlers'[h].pc \in {"done", "s429"}
              /\ recording_state' = recording_state
              /\ calls' = calls
              /\ pipelines' = pipelines]_vars

\* `record stop` after a session has ended: the handler is at its warning.
C3_Witness ==
    /\ ~recording_state.active
    /\ calls.obs_stop_ok = 1
    /\ \E h \in Handlers : handlers[h].kind = "stop" /\ handlers[h].pc = "s434"

\* C4: when the recorder's start fails the handler goes to the failure
\* message (line 396) and the record is unchanged; the handler then ends, or
\* reports through line 429, without touching the record or sleeping on a
\* timer.
C4_StartFailure ==
    [][\A h \in Handlers :
        /\ (StartDispatched(h) /\ StartFails) =>
              /\ handlers'[h].pc = "s396"
              /\ handlers'[h].deadline = None
              /\ recording_state' = recording_state
        /\ (Moved(h) /\ handlers[h].pc = "s396") =>
              /\ handlers'[h].pc \in {"done", "s429"}
              /\ recording_state' = recording_state
        /\ (Moved(h) /\ handlers[h].pc = "s429" /\ handlers[h].sid = 0) =>
              /\ handlers'[h].pc = "done"
              /\ recording_state' = recording_state]_vars

\* The recorder refused the start: the handler is at the failure message and
\* the record is as it was created.
C4_Witness ==
    /\ recording_state = InitialState
    /\ calls.obs_start = 1
    /\ calls.obs_start_ok = 0
    /\ \E h \in Handlers : handlers[h].pc = "s396"

\* C5: when the recorder's stop fails the handler goes to the failure
\* message (line 440), the record is unchanged (the session stays Recording)
\* and no pipeline is launched, then or when the handler ends.
C5_StopFailure ==
    [][\A h \in Handlers :
        /\ (StopEntered(h) /\ StopFails) =>
              /\ handlers'[h].pc = "s440"
              /\ recording_state' = recording_state
              /\ recording_state'.active
              /\ pipelines' = pipelines
        /\ (Moved(h) /\ handlers[h].pc = "s440") =>
              /\ handlers'[h].pc \in {"done", "s465"}
              /\ recording_state' = recording_state
              /\ pipelines' = pipelines]_vars

\* The recorder refused the stop: the handler is at the failure message, the
\* session is still Recording and there is no pipeline.
C5_Witness ==
    /\ recording_state.active
    /\ recording_state.start_time # None
    /\ calls.obs_stop = 1
    /\ calls.obs_stop_ok = 0
    /\ pipelines = <<>>
    /\ \E h \in Handlers : handlers[h].pc = "s440"

\* C6: in every reachable state start_time is set if and only if active is
\* true.
C6_StartTimeIffActive ==
    (recording_state.start_time # None) <=> recording_state.active

\* A second session is Recording while the pipeline of the first one runs.
C6_Witness ==
    /\ recording_state.active
    /\ recording_state.start_time # None
    /\ session_id = 2
    /\ \E i \in DOMAIN pipelines : pipelines[i].pc \notin {"created", "done"}

\* handle_record_stop returns in task h in this step.
StopReturns(h) ==
    handlers[h].stop_outcome = "none" /\ handlers'[h].stop_outcome = "returned"

\* C7 as stated: whenever handle_record_stop, entered on a Recording session,
\* returns, active is false.
C7_StopReturnsIdle ==
    [][\A h \in Handlers :
        (StopReturns(h) /\ handlers[h].stop_on = "recording") =>
            ~recording_state'.active]_vars

\* C7, amended: active changes only with the recorder's answer, false -> true
\* in the step of a successful start and true -> false in the step of a
\* confirmed stop; and when a handle_record_stop whose stop the recorder
\* confirmed returns, active is false unless a later start has succeeded.
C7_StartStopCycle ==
    [][/\ StartSucceeds => (~recording_state.active /\ recording_state'.active)
       /\ StopSucceeds => (recording_state.active /\ ~recording_state'.active)
       /\ (recording_state'.active # recording_state.active) =>
              (StartSucceeds \/ StopSucceeds)
       /\ \A h \in Handlers :
              (StopReturns(h) /\ handlers[h].stop_sid # 0 /\ recording_state'.active)
                  => session_id' > handlers[h].stop_sid]_vars

\* One start and one `record stop`: the recorder confirmed both, the stop
\* handler has launched the pipeline and returned, and the session is Idle.
C7_Witness ==
    /\ ~recording_state.active
    /\ calls.obs_start_ok = 1
    /\ calls.obs_stop_ok = 1
    /\ Len(pipelines) = 1
    /\ \E h \in Handlers :
        handlers[h].kind = "stop" /\ handlers[h].stop_outcome = "returned"

\* C8: the step in which the recorder confirms the stop makes the session
\* Idle and launches nothing; a pipeline is created only by a handler that
\* is past that step, for a session that is no longer the active one; and no
\* step of a pipeline changes active, start_time, duration_minutes or
\* recording_filename.
C8_IdleBeforePipeline ==
    [][/\ StopSucceeds => (~recording_state'.active /\ pipelines' = pipelines)
       /\ Len(pipelines') > Len(pipelines) =>
              \E h \in Handlers :
                  /\ Moved(h)
                  /\ handlers[h].pc = "s456"
                  /\ pipelines'[Len(pipelines')].sid = handlers[h].stop_sid
       /\ \A i \in DOMAIN pipelines' :
              ~(recording_state'.active /\ session_id' = pipelines'[i].sid)
       /\ \A i \in DOMAIN pipelines :
              pipelines'[i] # pipelines[i] =>
                  SessionFields(recording_state') = SessionFields(recording_state)]_vars

\* The pipeline of an ended session has recorded its upload identifier while
\* a later session is Recording.
C8_Witness ==
    /\ recording_state.active
    /\ recording_state.start_time # None
    /\ recording_state.youtube_upload_id # None
    /\ \E i \in DOMAIN pipelines :
        pipelines[i].pc = "p519" /\ pipelines[i].sid < session_id

\* C9 as stated: no step of a pipeline writes the shared session record.
C9_PipelineLeavesRecord ==
    [][\A i \in DOMAIN pipelines :
        pipelines'[i] # pipelines[i] => recording_state' = recording_state]_vars

\* C9, amended: the pipeline looks the artifact up by the stem captured at
\* stop time (the stem its session's start stored), whatever the live record
\* holds by then; of the live record it changes only the three
\* post-processing fields, and the transcript path it writes is the one of
\* the captured stem.
C9_CapturedContext ==
    [][\A i \in DOMAIN pipelines :
        pipelines'[i] # pipelines[i] =>
            /\ SessionFields(recording_state') = SessionFields(recording_state)
            /\ (pipelines[i].pc = "p470" /\ pipelines'[i].pc \notin {"p470", "p537"})
                  => pipelines'[i].lookup = stems[pipelines[i].sid]
            /\ recording_state'.transcript_path # recording_state.transcript_path
                  => recording_state'.transcript_path
                         = TranscriptFile(stems[pipelines[i].sid])]_vars

\* A pipeline has written the transcript of its own session's stem while the
\* live record holds the stem of a later session.
C9_Witness ==
    \E i \in DOMAIN pipelines :
        /\ pipelines[i].pc = "p506"
        /\ pipelines[i].lookup = stems[pipelines[i].sid]
        /\ recording_state.recording_filename # None
        /\ recording_state.recording_filename # pipelines[i].lookup
        /\ recording_state.transcript_path = TranscriptFile(pipelines[i].lookup)

\* C10: a post-processing field that holds a value is replaced by another
\* value only by a successful start.
C10_WriteOnce ==
    [][/\ (/\ recording_state.transcript_path # None
           /\ recording_state'.transcript_path # recording_state.transcript_path)
              => StartSucceeds
       /\ (/\ recording_state.github_commit_url # None
           /\ recording_state'.github_commit_url # recording_state.github_commit_url)
              => StartSucceeds
       /\ (/\ recording_state.youtube_upload_id # None
           /\ recording_state'.youtube_upload_id # recording_state.youtube_upload_id)
              => StartSucceeds]_vars

\* Task h, which started a session, ends in this step.
StartHandlerEnds(h) ==
    handlers[h].sid # 0 /\ handlers[h].pc # "done" /\ handlers'[h].pc = "done"

\* The timer of task h calls handle_record_stop in this step (line 423).
TimerStops(h) == handlers[h].pc = "s422" /\ handlers'[h].stop_on # "none"

\* C11: the handler of a successful start with minutes > 0 does not end while
\* the session it started is still Recording unless it has triggered the
\* stop transition (it called handle_record_stop, line 423); and a handler
\* started with minutes = 0 never triggers it.
C11_AutomaticStop ==
    [][\A h \in Handlers :
        /\ (/\ StartHandlerEnds(h)
            /\ handlers[h].minutes > 0
            /\ recording_state'.active
            /\ session_id' = handlers[h].sid)
              => handlers[h].stop_on # "none"
        /\ handlers[h].minutes = 0 => ~TimerStops(h)]_vars

\* C12: when the timer of task h triggers a stop that finds a session
\* Recording, the sleep of minutes * 60 seconds is over and the session is
\* the one task h started.
C12_TimerStopsOwnSession ==
    [][\A h \in Handlers :
        (TimerStops(h) /\ handlers'[h].stop_on = "recording") =>
            /\ now >= handlers[h].deadline
            /\ session_id = handlers[h].sid]_vars

\* Pipeline p has called collaborator `name`.
InCalls(p, name) == \E k \in DOMAIN p.calls : p.calls[k] = name

\* Pipeline i takes this step.
PipelineMoved(i) == pipelines'[i] # pipelines[i]

\* C13: a pipeline that found the artifact (it went on to the transcript)
\* reaches the except clause only from the final notification itself, and
\* when it ends it has attempted the video upload and both cloud uploads;
\* and a video upload that succeeds after a failed transcript is recorded.
C13_StepsIndependent ==
    [][\A i \in DOMAIN pipelines :
        /\ (PipelineMoved(i) /\ InCalls(pipelines'[i], "transcript")) =>
              /\ pipelines'[i].pc = "p537" => pipelines[i].pc \in {"p532", "p537"}
              /\ pipelines'[i].pc = "done" =>
                    /\ InCalls(pipelines'[i], "youtube")
                    /\ InCalls(pipelines'[i], "s3")
                    /\ InCalls(pipelines'[i], "rclone")
        /\ (/\ pipelines[i].pc = "p470"
            /\ pipelines'[i].pc = "p519"
            /\ ~InCalls(pipelines'[i], "github"))
              => recording_state'.youtube_upload_id = UploadId(now)]_vars

\* C14: a pipeline that does not find the artifact (its only call is the
\* lookup) sends the failure (line 476) and ends, through the except clause
\* if that send raises: it calls no collaborator, never reaches the final
\* notification and leaves the whole record unchanged.
C14_MissingArtifact ==
    [][\A i \in DOMAIN pipelines :
        /\ (PipelineMoved(i) /\ pipelines'[i].pc = "p476") =>
              /\ pipelines'[i].calls = <<"glob">>
              /\ recording_state' = recording_state
        /\ (PipelineMoved(i) /\ pipelines[i].calls = <<"glob">>) =>
              /\ pipelines[i].pc \in {"p476", "p537"}
              /\ pipelines'[i].pc \in {"p537", "done"}
              /\ pipelines'[i].calls = <<"glob">>
              /\ recording_state' = recording_state]_vars

\* A pipeline has ended after the lookup found nothing; the record holds no
\* post-processing field.
C14_Witness ==
    /\ PostFields(recording_state) = <<None, None, None>>
    /\ \E i \in DOMAIN pipelines :
        pipelines[i].pc = "done" /\ pipelines[i].calls = <<"glob">>

\* C15: the pipeline goes to the cloud notification (line 529) exactly when
\* upload_to_s3 or upload_to_rclone returned True, and otherwise straight to
\* the final notification; an upload succeeds only if its target is
\* configured; and with neither target configured both uploads return False
\* in the step that calls them, which ends at the final notification.
C15_CloudNotification ==
    [][\A i \in DOMAIN pipelines :
        (PipelineMoved(i) /\ pipelines[i].pc \notin {"p529", "p532", "p537"}) =>
            /\ pipelines'[i].pc = "p529" =>
                  (pipelines'[i].s3_success \/ pipelines'[i].rclone_success)
            /\ pipelines'[i].pc = "p532" =>
                  (~pipelines'[i].s3_success /\ ~pipelines'[i].rclone_success)
            /\ pipelines'[i].s3_success => config.s3_bucket
            /\ pipelines'[i].rclone_success => config.rclone_remote
            /\ (/\ ~config.s3_bucket
                /\ ~config.rclone_remote
                /\ InCalls(pipelines'[i], "s3")
                /\ ~InCalls(pipelines[i], "s3"))
                  => /\ InCalls(pipelines'[i], "rclone")
                     /\ pipelines'[i].pc = "p532"]_vars

\* With neither cloud target configured a pipeline has called both uploads
\* and is at the final notification.
C15_Witness ==
    /\ ~config.s3_bucket
    /\ ~config.rclone_remote
    /\ \E i \in DOMAIN pipelines :
        /\ pipelines[i].pc = "p532"
        /\ InCalls(pipelines[i], "s3")
        /\ InCalls(pipelines[i], "rclone")

\* The number written with these decimal digits.
RECURSIVE Number(_)
Number(digits) ==
    IF digits = <<>> THEN 0
    ELSE Number(SubSeq(digits, 1, Len(digits) - 1)) * 10 + digits[Len(digits)]

\* This step dispatches `record status` to task h.
StatusDispatched(h) == handlers[h].kind = "free" /\ handlers'[h].kind = "status"

\* C16: `record status` reports "not active" exactly when active is false;
\* otherwise minutes and seconds, each of at least two digits, with
\* seconds < 60 and minutes * 60 + seconds the time elapsed since
\* start_time, and one flag per populated post-processing field.  Neither
\* that step nor the send that follows changes the record, calls the
\* recorder or launches a pipeline.
C16_StatusReport ==
    [][\A h \in Handlers :
        /\ StatusDispatched(h) =>
              LET r == handlers'[h].report
                  rs == recording_state
              IN  /\ (r[1] = "not active") <=> ~rs.active
                  /\ rs.active =>
                        /\ r[1] = "active"
                        /\ Len(r[2]) >= 2
                        /\ Len(r[3]) = 2
                        /\ Number(r[3]) < SecondsPerMinute
                        /\ Number(r[2]) * SecondsPerMinute + Number(r[3])
                              = now - rs.start_time
                        /\ r[4] = (rs.youtube_upload_id # None)
                        /\ r[5] = (rs.github_commit_url # None)
                        /\ r[6] = (rs.transcript_path # None)
                  /\ recording_state' = recording_state
                  /\ calls' = calls
                  /\ pipelines' = pipelines
        /\ (Moved(h) /\ handlers[h].kind = "status") =>
              /\ handlers'[h].pc = "done"
              /\ recording_state' = recording_state
              /\ calls' = calls
              /\ pipelines' = pipelines]_vars

\* A status asked 1 minute 59 seconds into a session whose record holds a
\* transcript path and an upload identifier but no commit URL.
C16_Witness ==
    \E h \in Handlers :
        /\ handlers[h].pc = "s559"
        /\ handlers[h].report = <<"active", <<0, 1>>, <<5, 9>>, TRUE, FALSE, TRUE>>
        /\ recording_state.active

\* C17: in every reachable state the planned duration stored in the record
\* is at least 0.
C17_DurationNonNegative == recording_state.duration_minutes >= 0

\* The three post-processing fields, all absent.
NoPostFields == <<None, None, None>>

\* C18: the step of a successful start leaves the record active, with the
\* start time read in that step, duration_minutes = minutes, the stem that
\* FormatStem gives for the start time and no post-processing field; and the
\* message it sends carries " for <minutes> minutes" exactly when minutes > 0.
C18_StartPostconditions ==
    [][\A h \in Handlers :
        (StartDispatched(h) /\ StartSucceeds) =>
            /\ recording_state'.active
            /\ recording_state'.start_time = now
            /\ recording_state'.duration_minutes = handlers'[h].minutes
            /\ recording_state'.recording_filename
                  = FormatStem(recording_state'.start_time)
            /\ PostFields(recording_state') = NoPostFields
            /\ handlers'[h].pc = "s416"
            /\ handlers'[h].report[1] = "recording_start"
            /\ IF handlers'[h].minutes > 0
               THEN handlers'[h].report[2] = <<"for", handlers'[h].minutes, "minutes">>
               ELSE handlers'[h].report[2] = <<>>]_vars

\* C19: the duration in the metadata a pipeline commits is the elapsed
\* duration that the stop of its session computed.
C19_MetadataDuration ==
    [][\A i \in DOMAIN pipelines :
        (InCalls(pipelines'[i], "github") /\ ~InCalls(pipelines[i], "github")) =>
            pipelines'[i].metadata_duration = pipelines[i].session_duration]_vars

\* C20: recording_filename changes only in the step of a successful start or
\* of a confirmed stop; while a session is Recording it is the stem that
\* session's start stored; the stop captures that stem; and the pipeline it
\* launches is given the stem of the session that stop ended.
C20_StemStable ==
    [][/\ recording_state'.recording_filename # recording_state.recording_filename
              => (StartSucceeds \/ StopSucceeds)
       /\ recording_state'.active
              => recording_state'.recording_filename = stems'[session_id']
       /\ \A h \in Handlers :
              (StopEntered(h) /\ StopSucceeds) =>
                  /\ handlers'[h].stop_sid = session_id
                  /\ handlers'[h].recording_filename = stems[session_id]
       /\ Len(pipelines') > Len(pipelines) =>
              LET p == pipelines'[Len(pipelines')]
              IN  p.filename = stems[p.sid]]_vars

\* A pipeline was created with the stem of the session its stop ended, after
\* a later session, Recording under another stem, had started.
C20_Witness ==
    \E i \in DOMAIN pipelines :
        /\ pipelines[i].pc = "created"
        /\ pipelines[i].filename = stems[pipelines[i].sid]
        /\ recording_state.active
        /\ session_id > pipelines[i].sid
        /\ recording_state.recording_filename # pipelines[i].filename

\* C21: two different sessions never have the same filename stem.
C21_StemUnique ==
    \A a, b \in DOMAIN stems : a # b => stems[a] # stems[b]

\* The place of a collaborator call in the order of the pipeline's steps.
StepRank(name) ==
    CASE name = "glob" -> 0
      [] name = "transcript" -> 1
      [] name = "github" -> 2
      [] name = "youtube" -> 3
      [] name = "s3" -> 4
      [] name = "rclone" -> 5

\* The calls are in the order of the steps, each made at most once.
InStepOrder(cs) ==
    \A j, k \in DOMAIN cs : j < k => StepRank(cs[j]) < StepRank(cs[k])

\* C22: the calls of a pipeline are in the order transcript, commit, video
\* upload, S3, rclone, each made at most once; the commit is called only in
\* a step that has got a transcript path and stored it; and once the
\* transcript and commit step is over (the pipeline is past the commit
\* message of line 506) the video upload has been called.
C22_StepOrder ==
    [][\A i \in DOMAIN pipelines :
        PipelineMoved(i) =>
            /\ InStepOrder(pipelines'[i].calls)
            /\ (InCalls(pipelines'[i], "github") /\ ~InCalls(pipelines[i], "github"))
                  => recording_state'.transcript_path
                        = TranscriptFile(pipelines'[i].lookup)
            /\ (InCalls(pipelines'[i], "transcript") /\ pipelines'[i].pc # "p506")
                  => InCalls(pipelines'[i], "youtube")]_vars

\* The pipelines launched for session s.
PipelinesOf(ps, s) == {i \in DOMAIN ps : ps[i].sid = s}

\* handle_record_stop ends in task h in this step (it returns or raises).
StopEnds(h) == handlers[h].stop_outcome = "none" /\ handlers'[h].stop_outcome # "none"

\* C23: no session has two pipelines, every pipeline belongs to a session
\* whose stop the recorder confirmed, and when the handle_record_stop that
\* got that confirmation ends its session has exactly one pipeline.
C23_OnePipelinePerSession ==
    [][/\ \A i, j \in DOMAIN pipelines' :
              pipelines'[i].sid = pipelines'[j].sid => i = j
       /\ Len(pipelines') <= calls'.obs_stop_ok
       /\ \A h \in Handlers :
              (StopEnds(h) /\ handlers[h].stop_sid # 0) =>
                  Cardinality(PipelinesOf(pipelines', handlers[h].stop_sid)) = 1]_vars

\* C24: no pipeline writes a post-processing field while a session later
\* than its own is Recording.
C24_NoStaleFields ==
    [][\A i \in DOMAIN pipelines :
        (/\ PipelineMoved(i)
         /\ recording_state.active
         /\ session_id > pipelines[i].sid)
            => PostFields(recording_state') = PostFields(recording_state)]_vars

\* C25: when a task comes to send a failure report of handle_record_start
\* (line 396 or 429) the session is Idle, and when it comes to send one of
\* handle_record_stop (line 440 or 465) the session is Recording.
C25_FailureReports ==
    [][\A h \in Handlers :
        /\ (Moved(h) /\ handlers'[h].pc \in {"s396", "s429"})
              => ~recording_state'.active
        /\ (Moved(h) /\ handlers'[h].pc \in {"s440", "s465"})
              => recording_state'.active]_vars

====
